---------------------------- MODULE Spec2Model ----------------------------
(***************************************************************************)
(* Model of src/main.rs: incremental enumeration of minimal models         *)
(* (prime implicants) of a growing CNF formula with two SAT solver         *)
(* instances, pos_solver (the conjunction of the clauses) and neg_solver   *)
(* (the indicator / chain encoding used to shrink a full model).           *)
(*                                                                         *)
(* The SAT solver is an external library.  It is modelled by its contract: *)
(* solve answers True iff the clauses are satisfiable, get_model returns   *)
(* any satisfying assignment, get_conflict returns the negation of any     *)
(* subset of the assumptions that is unsatisfiable with the clauses.       *)
(***************************************************************************)
EXTENDS Integers, Sequences, FiniteSets

\* ------------------------------------------------------------------ bounds
\* user variables are named 1..NumVars on the input
NumVars == 2
\* an input line holds at most MaxClauseLen literals before its 0
MaxClauseLen == 2
\* at most MaxClauses non-empty lines are read from stdin
MaxClauses == 1
\* at most MaxSolves empty lines (solve requests) are read from stdin
MaxSolves == 2

VARIABLES
    pos_solver,      \* main.rs:31  [nvars, clauses]
    neg_solver,      \* main.rs:33  [nvars, clauses]
    var_map,         \* main.rs:36  IndexSet<VarName>, index i is var_map[i+1]
    clause_counter,  \* main.rs:39
    chain,           \* main.rs:42  Option<Lit>
    pc,              \* position of main: "read", "reduce", "halted", "panic"
    model,           \* main.rs:67  set of the indices the full model sets True
    assumptions,     \* main.rs:68  Vec<Lit>
    essential,       \* main.rs:82  BTreeSet<Lit>
    calls,           \* main.rs:95  solve_with_assumptions calls of this round
    lines,           \* the lines of stdin consumed so far (main.rs:44)
    out              \* the result lines printed to stdout so far (not "solving...")

vars == <<pos_solver, neg_solver, var_map, clause_counter, chain, pc,
          model, assumptions, essential, calls, lines, out>>

\* ------------------------------------------------------------ sequences
Range(s) == {s[i] : i \in 1..Len(s)}

Last(s) == s[Len(s)]

Front(s) == SubSeq(s, 1, Len(s) - 1)

Min(S) == CHOOSE x \in S : \A y \in S : x <= y

\* iteration order of a BTreeSet<Lit>: ascending
RECURSIVE SortedSeq(_)
SortedSeq(S) == IF S = {} THEN <<>> ELSE <<Min(S)>> \o SortedSeq(S \ {Min(S)})

\* every order in which the elements of S can be listed
RECURSIVE Orderings(_)
Orderings(S) ==
    IF S = {} THEN {<<>>}
    ELSE UNION {{<<x>> \o s : s \in Orderings(S \ {x})} : x \in S}

\* ------------------------------------------------------------- literals
None == 0 - 1

LitNew(index, negated) == 2 * index + (IF negated THEN 1 ELSE 0)

Not(lit) == IF lit % 2 = 0 THEN lit + 1 ELSE lit - 1

LitVar(lit) == lit \div 2

IsNegated(lit) == lit % 2 = 1

\* --------------------------------------------------------------- VarName
UserVar(n) == [kind |-> "UserVar", id |-> n]

Clause(n) == [kind |-> "Clause", id |-> n]

Chain(n) == [kind |-> "Chain", id |-> n]

Abs(n) == IF n < 0 THEN 0 - n ELSE n

\* insert_full that never finds the name: every call appends
InsertFullAppending(vm, name) == [index |-> Len(vm), map |-> Append(vm, name)]
\* IndexSet::insert_full: the index of the name, appended if it is new
InsertFull(vm, name) ==
    IF \E i \in 1..Len(vm) : vm[i] = name
    THEN [index |-> (CHOOSE i \in 1..Len(vm) : vm[i] = name) - 1, map |-> vm]
    ELSE [index |-> Len(vm), map |-> Append(vm, name)]

\* 0 stands for the panic "not a user var": 0 is never the name of a variable
user_var_name(vm, index, value) ==
    IF index + 1 \in 1..Len(vm) /\ vm[index + 1].kind = "UserVar"
    THEN (IF value THEN vm[index + 1].id ELSE 0 - vm[index + 1].id)
    ELSE 0

UserIndices(vm) == {i - 1 : i \in {j \in 1..Len(vm) : vm[j].kind = "UserVar"}}

\* ------------------------------------------------------ the solver oracle
NewSolver == [nvars |-> 0, clauses |-> <<>>]

AddClause(solver, clause) == [solver EXCEPT !.clauses = Append(@, clause)]

AddClauses(solver, cs) == [solver EXCEPT !.clauses = @ \o cs]

\* while nvars <= len + 2 { new_var() }
DeclareVars(solver, len) ==
    [solver EXCEPT !.nvars = IF @ <= len + 2 THEN len + 3 ELSE @]

ClauseSets(solver) == {Range(c) : c \in Range(solver.clauses)}

LitTrue(lit, m) == (LitVar(lit) \in m) /= IsNegated(lit)

\* the clauses not yet satisfied by the literals of asg, without their false literals
Simplify(cls, asg) ==
    {{l \in c : Not(l) \notin asg} : c \in {d \in cls : d \cap asg = {}}}

\* satisfiability of a set of clauses together with a set of literals
RECURSIVE Sat(_, _)
Sat(cls, asg) ==
    IF \E l \in asg : Not(l) \in asg THEN FALSE
    ELSE LET r == Simplify(cls, asg)
             units == UNION {c \in r : Cardinality(c) = 1}
         IN  IF {} \in r THEN FALSE
             ELSE IF r = {} THEN TRUE
             ELSE IF units /= {} THEN Sat(r, units)
             ELSE LET l == Min(UNION r)
                  IN  Sat(r, {l}) \/ Sat(r, {Not(l)})

\* Solver::solve_with_assumptions(..) == True
SolveWithAssumptions(solver, assumed) == Sat(ClauseSets(solver), assumed)

\* the models Solver::get_model may return, restricted to the indices in `over`
Models(solver, over) ==
    {m \in SUBSET over :
        \A c \in ClauseSets(solver) : \E l \in c : LitTrue(l, m)}

\* the values Solver::get_conflict may return after an unsatisfiable answer:
\* the negated literals of a subset of the assumptions that suffices, in any order
Conflicts(solver, assumed) ==
    UNION {Orderings({Not(l) : l \in K}) :
              K \in {J \in SUBSET Range(assumed) : ~Sat(ClauseSets(solver), J)}}


\* ------------------------------------------------------------ the program
\* lines 48-59: the clause of a line (its literals before the 0) and the registry
RECURSIVE ParseLine(_, _, _)
ParseLine(line, vm, clause) ==
    IF line = <<>> THEN [map |-> vm, clause |-> clause]
    ELSE LET lit_val == Head(line)
             r == InsertFull(vm, UserVar(Abs(lit_val)))
             var == LitNew(r.index, FALSE)
         IN  ParseLine(Tail(line), r.map,
                       Append(clause, IF lit_val < 0 THEN Not(var) ELSE var))

\* line 74 without its leading `!`: the literal the model satisfies
AssumptionOfModelLiteral(index, m) == LitNew(index, ~(index \in m))

\* line 74: the assumption pushed for the user variable at index
AssumptionOf(index, m) == Not(LitNew(index, ~(index \in m)))

\* lines 68-76: the assumptions, one per user variable in registry order
InitialAssumptions(vm, m) ==
    LET idx == SortedSeq(UserIndices(vm))
    IN  [i \in 1..Len(idx) |-> AssumptionOf(idx[i], m)]

\* lines 69-77: the literals printed after "full model: "
FullModelNames(vm, m) ==
    LET idx == SortedSeq(UserIndices(vm))
    IN  [i \in 1..Len(idx) |-> user_var_name(vm, idx[i], idx[i] \in m)]

\* lines 117-121 with the sign of the essential literal instead of the model value
ReducedModelNamesOfLits(vm, m, lits) ==
    [i \in 1..Len(lits) |-> user_var_name(vm, LitVar(lits[i]), ~IsNegated(lits[i]))]
\* lines 117-121: the literals printed after "reduced model: "
ReducedModelNames(vm, m, lits) ==
    [i \in 1..Len(lits) |-> user_var_name(vm, LitVar(lits[i]), LitVar(lits[i]) \in m)]

\* lines 103-110 without the filter of line 109
NextAssumptionsUnfiltered(conflict, ess) ==
    [i \in 1..Len(conflict) |-> Not(conflict[i])]

\* lines 103-110 without the extend of line 104: only the clear
NextAssumptionsCleared(conflict, ess) == <<>>

\* lines 103-110: the assumptions kept after an unsatisfiable answer
NextAssumptions(conflict, ess) ==
    LET failed == [i \in 1..Len(conflict) |-> Not(conflict[i])]
        Keep(lit) == lit \notin ess
    IN  SelectSeq(failed, Keep)

\* line 94 left out: the essential literals (and the chain) are not assumed
TrialWithoutEssential(rest, ess) == rest

\* line 94: the assumptions of one call, the candidate left out
Trial(rest, ess) == rest \o SortedSeq(ess)

\* line 118 without the remove of line 115: the chain literal is printed too
ReducedLitsWithChain(ess, ch) == SortedSeq(ess)

\* lines 115 and 118: the literals the reduced model is printed from
ReducedLits(ess, ch) == SortedSeq(ess \ {ch})

\* lines 115 and 127 with the literals of the reduced model itself
BlockingClauseOfModel(ess, ch) == SortedSeq({Not(l) : l \in ess \ {ch}})

\* lines 115 and 127: the clause that blocks the reduced model
BlockingClause(ess, ch) == SortedSeq(ess \ {ch})

\* lines 164-167 without line 167: next_chain is implied, never forced false
ChainGateOneWay(prev_chain, clause_indicator, next_chain) ==
    << <<Not(prev_chain), next_chain>>,
       <<Not(clause_indicator), next_chain>> >>
\* lines 164-167: next_chain = prev_chain | clause_indicator
ChainGate(prev_chain, clause_indicator, next_chain) ==
    << <<Not(prev_chain), next_chain>>,
       <<Not(clause_indicator), next_chain>>,
       <<clause_indicator, prev_chain, Not(next_chain)>> >>

\* lines 173-179 without line 179: the indicator is implied by nothing
IndicatorClausesOneWay(clause, clause_indicator) ==
    [i \in 1..Len(clause) |-> <<clause[i], Not(clause_indicator)>>]
\* lines 173-179: the clauses that tie clause_indicator to the literals of the clause
IndicatorClauses(clause, clause_indicator) ==
    [i \in 1..Len(clause) |-> <<clause[i], Not(clause_indicator)>>]
    \o << [i \in 1..Len(clause) |-> Not(clause[i])] \o <<clause_indicator>> >>

OutLine(kind, lits) == [kind |-> kind, lits |-> lits]

\* lines 142-179: the clause goes to both solvers (vm is the registry after parsing)
AddToSolvers(vm, clause) ==
    LET counter == clause_counter + 1
        r1 == InsertFull(vm, Clause(counter))
        clause_indicator == LitNew(r1.index, FALSE)
        r2 == InsertFull(r1.map, Chain(counter))
        next_chain == LitNew(r2.index, FALSE)
        gate == IF chain /= None THEN ChainGate(chain, clause_indicator, next_chain)
                ELSE <<>>
    IN  /\ pos_solver' = AddClause(DeclareVars(pos_solver, Len(vm)), clause)
        /\ clause_counter' = counter
        /\ var_map' = IF chain /= None THEN r2.map ELSE r1.map
        /\ chain' = IF chain /= None THEN next_chain ELSE clause_indicator
        /\ neg_solver' = AddClauses(DeclareVars(neg_solver, Len(vm)),
                                    gate \o IndicatorClauses(clause, clause_indicator))

NumClauseLines == Cardinality({i \in 1..Len(lines) : lines[i] /= <<>>})

NumSolveLines == Cardinality({i \in 1..Len(lines) : lines[i] = <<>>})

InputLits == {n \in (0 - NumVars)..NumVars : n /= 0}

\* the non-empty lines read: up to MaxClauseLen distinct literals, in ascending order
InputLines ==
    {SortedSeq(S) : S \in {T \in SUBSET InputLits : Cardinality(T) \in 1..MaxClauseLen}}

Init ==
    /\ pos_solver = NewSolver
    /\ neg_solver = NewSolver
    /\ var_map = <<>>
    /\ clause_counter = 0
    /\ chain = None
    /\ pc = "read"
    /\ model = {}
    /\ assumptions = <<>>
    /\ essential = {}
    /\ calls = 0
    /\ lines = <<>>
    /\ out = <<>>

\* a line with at least one literal: lines 44-60 and 142-179
ReadClause(line) ==
    /\ pc = "read"
    /\ lines' = Append(lines, line)
    /\ LET p == ParseLine(line, var_map, <<>>)
       IN  AddToSolvers(p.map, p.clause)
    /\ UNCHANGED <<pc, model, assumptions, essential, calls, out>>

\* lines 132-135 without the break: the empty clause goes on to lines 142-179
SolveUnsatNoBreak ==
    /\ pc = "read"
    /\ Models(pos_solver, UserIndices(var_map)) = {}
    /\ lines' = Append(lines, <<>>)
    /\ out' = Append(out, OutLine("unsat", <<>>))
    /\ AddToSolvers(var_map, <<>>)
    /\ UNCHANGED <<pc, model, assumptions, essential, calls>>

\* an empty line on an unsatisfiable pos_solver: lines 62-64 and 132-135
SolveUnsat ==
    /\ pc = "read"
    /\ Models(pos_solver, UserIndices(var_map)) = {}
    /\ lines' = Append(lines, <<>>)
    /\ out' = Append(out, OutLine("unsat", <<>>))
    /\ pc' = "halted"
    /\ UNCHANGED <<pos_solver, neg_solver, var_map, clause_counter, chain,
                   model, assumptions, essential, calls>>

\* an empty line before any clause: lines 62-77, 128-130 and 142-179
SolveNoClauses ==
    /\ pc = "read"
    /\ chain = None
    /\ \E m \in Models(pos_solver, UserIndices(var_map)) :
          out' = out \o << OutLine("full model", FullModelNames(var_map, m)),
                           OutLine("no clauses", <<>>) >>
    /\ lines' = Append(lines, <<>>)
    /\ AddToSolvers(var_map, <<>>)
    /\ UNCHANGED <<pc, model, assumptions, essential, calls>>

\* an empty line with a chain literal: lines 62-86, up to the head of the loop
SolveStart ==
    /\ pc = "read"
    /\ chain /= None
    /\ \E m \in Models(pos_solver, UserIndices(var_map)) :
          /\ model' = m
          /\ assumptions' = InitialAssumptions(var_map, m)
          /\ out' = Append(out, OutLine("full model", FullModelNames(var_map, m)))
    /\ essential' = {chain}
    /\ calls' = 0
    /\ lines' = Append(lines, <<>>)
    /\ pc' = "reduce"
    /\ UNCHANGED <<pos_solver, neg_solver, var_map, clause_counter, chain>>

\* the assumptions of the call the next iteration makes
NextTrial == Trial(Front(assumptions), essential)

\* one iteration of the loop, lines 87-112; conflicts are the values get_conflict
\* may return after the call of this iteration
ReduceIteration(conflicts) ==
    /\ pc = "reduce"
    /\ assumptions /= <<>>
    /\ LET candidate == Last(assumptions)
           rest == Front(assumptions)
           assumption_len == Len(rest)
           trial == NextTrial
       IN  /\ calls' = calls + 1
           /\ IF SolveWithAssumptions(neg_solver, Range(trial))
              THEN /\ assumptions' = SubSeq(trial, 1, assumption_len)
                   /\ essential' = essential \cup {candidate}
              ELSE /\ \E conflict \in conflicts :
                          assumptions' = NextAssumptions(conflict, essential)
                   /\ essential' = essential
    /\ UNCHANGED <<pos_solver, neg_solver, var_map, clause_counter, chain,
                   pc, model, lines, out>>

\* one iteration of the loop with a solver that keeps its contract
ReduceStep == ReduceIteration(Conflicts(neg_solver, NextTrial))

\* the loop is left: lines 114-127 and 142-179
ReduceFinish ==
    /\ pc = "reduce"
    /\ assumptions = <<>>
    /\ LET clause == BlockingClause(essential, chain)
           names == ReducedModelNames(var_map, model, ReducedLits(essential, chain))
       IN  IF 0 \in Range(names)
           THEN /\ pc' = "panic"
                /\ UNCHANGED <<pos_solver, neg_solver, var_map, clause_counter,
                               chain, model, assumptions, essential, calls, out>>
           ELSE /\ out' = out \o << OutLine("reduced model", names),
                                    OutLine("blocking reduced model", <<>>) >>
                /\ AddToSolvers(var_map, clause)
                /\ pc' = "read"
                /\ model' = {}
                /\ assumptions' = <<>>
                /\ essential' = {}
                /\ calls' = 0
    /\ UNCHANGED lines

Next ==
    \/ NumClauseLines < MaxClauses /\ \E line \in InputLines : ReadClause(line)
    \/ NumSolveLines < MaxSolves /\ SolveUnsat
    \/ NumSolveLines < MaxSolves /\ SolveNoClauses
    \/ NumSolveLines < MaxSolves /\ SolveStart
    \/ ReduceStep
    \/ ReduceFinish

Spec == Init /\ [][Next]_vars

\* ------------------------- a solver whose core is any subset of the assumptions
\* get_conflict returns the negated literals of any subset of the assumptions,
\* sufficient for unsatisfiability or not
AnyConflicts(assumed) ==
    UNION {Orderings({Not(l) : l \in K}) : K \in SUBSET Range(assumed)}

ReduceStepAnyCore == ReduceIteration(AnyConflicts(NextTrial))

NextAnyCore ==
    \/ NumClauseLines < MaxClauses /\ \E line \in InputLines : ReadClause(line)
    \/ NumSolveLines < MaxSolves /\ SolveUnsat
    \/ NumSolveLines < MaxSolves /\ SolveNoClauses
    \/ NumSolveLines < MaxSolves /\ SolveStart
    \/ ReduceStepAnyCore
    \/ ReduceFinish

SpecAnyCore == Init /\ [][NextAnyCore]_vars

\* ---------------------------------------- the same clause set, submitted twice
\* the position of the first empty line read, 0 if there is none
FirstSolve ==
    IF NumSolveLines = 0 THEN 0
    ELSE Min({i \in 1..Len(lines) : lines[i] = <<>>})

\* stdin holds clause lines, an empty line, the same clause lines, an empty line
RepeatNext ==
    \/ /\ NumSolveLines = 0
       /\ NumClauseLines < MaxClauses
       /\ \E line \in InputLines : ReadClause(line)
    \/ /\ NumSolveLines = 1
       /\ Len(lines) < 2 * FirstSolve - 1
       /\ ReadClause(lines[Len(lines) + 1 - FirstSolve])
    \/ /\ \/ NumSolveLines = 0 /\ Len(lines) >= 1
          \/ NumSolveLines = 1 /\ Len(lines) = 2 * FirstSolve - 1
       /\ (SolveUnsat \/ SolveStart)
    \/ ReduceStep
    \/ ReduceFinish

SpecRepeat == Init /\ [][RepeatNext]_vars


\* ------------------------------ a clause set followed by solve requests only
\* stdin holds up to MaxClauses clause lines and then empty lines without end
EnumNext ==
    \/ /\ NumSolveLines = 0
       /\ NumClauseLines < MaxClauses
       /\ \E line \in InputLines : ReadClause(line)
    \/ SolveUnsat
    \/ SolveNoClauses
    \/ SolveStart
    \/ ReduceStep
    \/ ReduceFinish

\* main runs on as long as stdin has a line, and every solver call returns
SpecEnum == Init /\ [][EnumNext]_vars /\ WF_vars(EnumNext)
\* ------------------------------------------------- what the claims speak of
\* a total assignment of the registered user variables: the indices set True
UserAssignments == SUBSET UserIndices(var_map)

\* the literal a printed name stands for
NameLit(n) ==
    LitNew((CHOOSE i \in 1..Len(var_map) : var_map[i] = UserVar(Abs(n))) - 1, n < 0)

Agrees(A, names) == \A n \in names : LitTrue(NameLit(n), A)

Satisfies(A, clause) == \E l \in Range(clause) : LitTrue(l, A)

\* a solve round has just reported a reduced model and added its blocking clause
JustReported ==
    /\ pc = "read"
    /\ lines /= <<>> /\ Last(lines) = <<>>
    /\ out /= <<>> /\ Last(out).kind = "blocking reduced model"

\* the reduced model of that round, as printed
ReportedReduced == Range(out[Len(out) - 1].lits)

\* the clauses pos_solver held when that round reported
ClausesBefore == Front(pos_solver.clauses)

\* the loop of lines 87-112 has been left and line 115 not yet run
LoopLeft == pc = "reduce" /\ assumptions = <<>>

\* C1. Implicant soundness: every total assignment of the user variables that
\* agrees with the reported reduced model satisfies every clause that was added
\* to pos_solver before the round reported (user and blocking clauses).
ImplicantSoundness ==
    JustReported =>
        \A A \in UserAssignments :
            Agrees(A, ReportedReduced) =>
                \A i \in 1..Len(ClausesBefore) : Satisfies(A, ClausesBefore[i])

\* a round reported a non-empty reduced model with fewer literals than its full model
ImplicantSoundnessWitness ==
    /\ JustReported
    /\ Cardinality(ReportedReduced) >= 1
    /\ Cardinality(ReportedReduced) < Len(out[Len(out) - 2].lits)

\* C2. Minimality: for every literal r of the reported reduced model some total
\* assignment agrees with the reduced model without r and falsifies a clause
\* that was added to pos_solver before the round reported.
Minimality ==
    JustReported =>
        \A r \in ReportedReduced :
            \E A \in UserAssignments :
                /\ Agrees(A, ReportedReduced \ {r})
                /\ \E i \in 1..Len(ClausesBefore) : ~Satisfies(A, ClausesBefore[i])

\* a round reported a reduced model of two literals
MinimalityWitness ==
    /\ JustReported
    /\ Cardinality(ReportedReduced) = 2

SentinelNeverAdded ==
    /\ (out /= <<>> /\ Last(out).kind = "no clauses") =>
          /\ clause_counter = 0
          /\ pos_solver.clauses = <<>>
          /\ neg_solver.clauses = <<>>
          /\ var_map = <<>>
          /\ chain = None
    /\ \A i \in 1..Len(out) :
          (out[i].kind = "no clauses" /\ i < Len(out)) => out[i + 1].kind /= "unsat"

\* C5. Once "unsat" is printed nothing changes any more: no line is read, no
\* clause or variable is added, no solver is queried, nothing is printed.
HaltedIsTerminal ==
    [][(out /= <<>> /\ Last(out).kind = "unsat") => UNCHANGED vars]_vars

\* "unsat" was printed while the bounds still allow a clause line to be read
HaltedIsTerminalWitness ==
    /\ out /= <<>> /\ Last(out).kind = "unsat"
    /\ pc = "halted"
    /\ NumClauseLines < MaxClauses

\* the literals that fix the assignment A of the user variables
AssignmentLits(A) == {LitNew(i, i \notin A) : i \in UserIndices(var_map)}

\* C6. Chain correctness: under every total assignment A of the user variables,
\* the clauses of neg_solver force the chain literal true if some clause added
\* so far is falsified by A, and force it false if none is.
ChainCorrectness ==
    (pc = "read" /\ chain /= None) =>
        \A A \in UserAssignments :
            LET falsified == \E i \in 1..Len(pos_solver.clauses) :
                                 ~Satisfies(A, pos_solver.clauses[i])
            IN  /\ SolveWithAssumptions(neg_solver, AssignmentLits(A) \cup {chain})
                       <=> falsified
                /\ SolveWithAssumptions(neg_solver, AssignmentLits(A) \cup {Not(chain)})
                       <=> ~falsified

\* C7 as stated. At the end of the loop, assuming the essential literals and the
\* chain literal, neg_solver answers satisfiable.
EssentialSatisfiable ==
    LoopLeft => SolveWithAssumptions(neg_solver, essential)

\* C7. At the end of the loop, assuming the essential literals and the chain
\* literal, neg_solver answers unsatisfiable.
EssentialUnsatisfiable ==
    LoopLeft => ~SolveWithAssumptions(neg_solver, essential)

\* the loop was left after at least one call, with an essential literal kept
EssentialUnsatisfiableWitness ==
    LoopLeft /\ calls >= 1 /\ Cardinality(essential) >= 2

\* C8 as stated. At the end of the loop, for every essential literal e, assuming
\* the other essential literals and the chain literal, neg_solver answers
\* unsatisfiable.
DroppingIsUnsatisfiable ==
    LoopLeft =>
        \A e \in essential \ {chain} :
            ~SolveWithAssumptions(neg_solver, essential \ {e})

\* C8. At the end of the loop, for every essential literal e, assuming the other
\* essential literals and the chain literal, neg_solver answers satisfiable.
DroppingIsSatisfiable ==
    LoopLeft =>
        \A e \in essential \ {chain} :
            SolveWithAssumptions(neg_solver, essential \ {e})

\* the loop was left with two essential literals beside the chain
DroppingIsSatisfiableWitness ==
    LoopLeft /\ Cardinality(essential \ {chain}) = 2

\* C9. Termination bound: the calls made so far and the candidates still on the
\* stack together never exceed the number of registered user variables (so a
\* round makes at most that many calls), every iteration takes at least one
\* literal off the stack and the stack never gains a literal.
TerminationBound ==
    /\ [](calls + Len(assumptions) <= Cardinality(UserIndices(var_map)))
    /\ [][(pc = "reduce" /\ calls' = calls + 1) =>
             /\ Len(assumptions') < Len(assumptions)
             /\ Range(assumptions') \subseteq Range(Front(assumptions))]_vars

\* a round made as many calls as there are user variables, two at least
TerminationBoundWitness ==
    LoopLeft /\ calls = Cardinality(UserIndices(var_map)) /\ calls >= 2


\* --------------------------------------------- prime implicants of the input
\* a printed or read literal n under the assignment that sets the names in T true
NameTrue(n, T) == IF n > 0 THEN n \in T ELSE (0 - n) \notin T

\* every total assignment that agrees with the literals of cube satisfies F
IsImplicant(cube, F) ==
    \A T \in SUBSET (1..NumVars) :
        (\A n \in cube : NameTrue(n, T)) =>
            \A cl \in F : \E n \in cl : NameTrue(n, T)

\* the irreducible implicants of the set F of clauses over the input literals
PrimeImplicants(F) ==
    {cube \in SUBSET InputLits :
        /\ \A n \in cube : (0 - n) \notin cube
        /\ IsImplicant(cube, F)
        /\ \A n \in cube : ~IsImplicant(cube \ {n}, F)}

\* stdin was k clause lines, an empty line, the same k lines, an empty line,
\* and the second round is over
RepeatedSetSolvedTwice ==
    LET k == FirstSolve - 1
    IN  /\ pc \in {"read", "halted"}
        /\ k >= 1
        /\ Len(lines) = 2 * k + 2
        /\ lines[2 * k + 2] = <<>>
        /\ \A i \in 1..k : lines[i] /= <<>> /\ lines[k + 1 + i] = lines[i]

ReducedModelsPrinted ==
    LET idx == SortedSeq({i \in 1..Len(out) : out[i].kind = "reduced model"})
    IN  [i \in 1..Len(idx) |-> Range(out[idx[i]].lits)]

\* C10. The same clause set submitted twice, each time followed by a solve
\* request: the second round prints a reduced model different from the first
\* round's, unless the clause set has only one irreducible implicant, and then
\* the second round prints "unsat".
RepeatedSetDistinct ==
    RepeatedSetSolvedTwice =>
        LET F == {Range(lines[i]) : i \in 1..(FirstSolve - 1)}
        IN  IF Cardinality(PrimeImplicants(F)) = 1
            THEN /\ Last(out).kind = "unsat"
                 /\ Len(ReducedModelsPrinted) = 1
            ELSE /\ Last(out).kind = "blocking reduced model"
                 /\ Len(ReducedModelsPrinted) = 2
                 /\ ReducedModelsPrinted[1] /= ReducedModelsPrinted[2]

\* both rounds printed a reduced model
RepeatedSetDistinctWitness ==
    RepeatedSetSolvedTwice /\ Len(ReducedModelsPrinted) = 2


\* ------------------------------------------------------------ the registry
IsPrefix(s, t) == Len(s) <= Len(t) /\ SubSeq(t, 1, Len(s)) = s

\* the names of the user variables on the lines read so far
NamesRead == UNION {{Abs(n) : n \in Range(lines[i])} : i \in 1..Len(lines)}

\* the names the registry holds as user variables
NamesRegistered ==
    {var_map[i].id : i \in {j \in 1..Len(var_map) : var_map[j].kind = "UserVar"}}

\* C11. The registry is an append-only injection: no name is registered at two
\* indices, the user variables registered are the absolute values read, a
\* literal read as v or -v has the index of UserVar(|v|) and differs by sign
\* only (line i is the i-th clause of pos_solver), and a step only appends.
RegistryInjective ==
    /\ [](/\ \A i, j \in 1..Len(var_map) : var_map[i] = var_map[j] => i = j
          /\ NamesRegistered = NamesRead
          /\ \A i \in 1..Len(lines) :
                lines[i] /= <<>> =>
                    LET c == pos_solver.clauses[i]
                    IN  /\ Len(c) = Len(lines[i])
                        /\ \A j \in 1..Len(c) :
                              /\ var_map[LitVar(c[j]) + 1] = UserVar(Abs(lines[i][j]))
                              /\ IsNegated(c[j]) = (lines[i][j] < 0))
    /\ [][IsPrefix(var_map, var_map')]_vars

\* a line named one variable by v and by -v, and the registry also holds an
\* indicator
RegistryInjectiveWitness ==
    /\ \E i \in 1..Len(lines) : \E n \in Range(lines[i]) : (0 - n) \in Range(lines[i])
    /\ Cardinality(NamesRegistered) = 1
    /\ \E i \in 1..Len(var_map) : var_map[i].kind = "Clause"


\* ------------------------------------------------- the encoding in neg_solver
\* the indicator literal registered for the k-th clause (line 156)
IndicatorOf(k) ==
    LitNew((CHOOSE i \in 1..Len(var_map) : var_map[i] = Clause(k)) - 1, FALSE)

\* neg_solver holds the clauses that tie the literal ind to the literals of clause
EncodedWith(clause, ind) ==
    /\ \A l \in Range(clause) : {l, Not(ind)} \in ClauseSets(neg_solver)
    /\ ({Not(l) : l \in Range(clause)} \cup {ind}) \in ClauseSets(neg_solver)

\* C12. Blocking clause exactness: when a round has reported the reduced model R
\* and the next line can be read, the last clause of pos_solver is the
\* disjunction of the complements of the literals of R, it is falsified by
\* exactly the total assignments that agree with R, and neg_solver encodes it
\* with an indicator of its own.
BlockingExactness ==
    JustReported =>
        LET blocking == Last(pos_solver.clauses)
        IN  /\ Range(blocking) = {Not(NameLit(n)) : n \in ReportedReduced}
            /\ \A A \in UserAssignments :
                  ~Satisfies(A, blocking) <=> Agrees(A, ReportedReduced)
            /\ clause_counter = Len(pos_solver.clauses)
            /\ \E i \in 1..Len(var_map) : var_map[i] = Clause(clause_counter)
            /\ \A k \in 1..(clause_counter - 1) : IndicatorOf(k) /= IndicatorOf(clause_counter)
            /\ EncodedWith(blocking, IndicatorOf(clause_counter))

\* a round reported a reduced model that leaves a variable open, and its blocking
\* clause of one literal is the last clause of pos_solver
BlockingExactnessWitness ==
    /\ JustReported
    /\ Len(Last(pos_solver.clauses)) = 1
    /\ Cardinality(UserIndices(var_map)) = 2


\* C13. Indicator encoding: for every clause added so far and every total
\* assignment A of the user variables, the clauses of neg_solver allow the
\* indicator of the clause to be true exactly when A falsifies the clause, and
\* allow it to be false exactly when A satisfies the clause.
IndicatorEncoding ==
    \A k \in 1..clause_counter :
        \A A \in UserAssignments :
            LET satisfied == Satisfies(A, pos_solver.clauses[k])
            IN  /\ SolveWithAssumptions(neg_solver, AssignmentLits(A) \cup {IndicatorOf(k)})
                       <=> ~satisfied
                /\ SolveWithAssumptions(neg_solver,
                                        AssignmentLits(A) \cup {Not(IndicatorOf(k))})
                       <=> satisfied


\* the indices registered as chain links
ChainLinks == {i - 1 : i \in {j \in 1..Len(var_map) : var_map[j].kind = "Chain"}}

\* the indicators of all the clauses added so far
Indicators == {IndicatorOf(k) : k \in 1..clause_counter}

\* the step that adds a clause after the first one adds one fresh chain link N
\* and, before anything else, the three clauses of N <=> (previous chain \/ I)
GateAdded ==
    LET added == SubSeq(neg_solver'.clauses, Len(neg_solver.clauses) + 1,
                        Len(neg_solver'.clauses))
        N == chain'
        I == LitNew((CHOOSE i \in 1..Len(var_map') :
                        var_map'[i] = Clause(clause_counter')) - 1, FALSE)
        withN == {i \in 1..Len(added) : N \in Range(added[i]) \/ Not(N) \in Range(added[i])}
    IN  /\ IsPrefix(neg_solver.clauses, neg_solver'.clauses)
        /\ LitVar(N) >= Len(var_map) /\ ~IsNegated(N)
        /\ var_map'[LitVar(N) + 1] = Chain(clause_counter')
        /\ ChainLinks' = ChainLinks \cup {LitVar(N)}
        /\ withN = 1..3
        /\ {Range(added[i]) : i \in withN} =
               {{Not(chain), N}, {Not(I), N}, {I, chain, Not(N)}}

\* C14. Chain gate: outside the reduction loop, once a clause has been added,
\* no assignment that satisfies the clauses of neg_solver makes the chain
\* literal true with every indicator false, or the chain literal false with
\* some indicator true; after one clause
\* the chain literal is the first indicator and there is no chain link; every
\* later clause adds one fresh chain link and the three clauses of its gate,
\* and leaves the clauses added before in place.
ChainGateCorrect ==
    /\ []((chain /= None /\ pc /= "reduce") =>
            /\ ~SolveWithAssumptions(neg_solver,
                                     {chain} \cup {Not(ind) : ind \in Indicators})
            /\ \A ind \in Indicators :
                  ~SolveWithAssumptions(neg_solver, {Not(chain), ind})
            /\ clause_counter = 1 =>
                  /\ chain = IndicatorOf(1)
                  /\ ChainLinks = {}
                  /\ Len(neg_solver.clauses) = Len(pos_solver.clauses[1]) + 1)
    /\ [][(clause_counter' /= clause_counter /\ chain /= None) => GateAdded]_vars

\* three clauses have been added: the chain literal is the second chain link
ChainGateCorrectWitness ==
    /\ clause_counter = 3
    /\ Cardinality(ChainLinks) = 2
    /\ chain \notin Indicators


\* the indices registered as clause indicators
IndicatorIndices == {i - 1 : i \in {j \in 1..Len(var_map) : var_map[j].kind = "Clause"}}

RECURSIVE SumLen(_)
SumLen(cs) == IF cs = <<>> THEN 0 ELSE Len(Head(cs)) + 1 + SumLen(Tail(cs))

\* C15. The two solvers stay in step: whenever a line has been processed,
\* pos_solver holds clause_counter clauses, the registry holds one indicator per
\* clause number 1..clause_counter and max(0, clause_counter - 1) chain links,
\* neg_solver holds for the k-th clause the clauses that tie the k-th indicator
\* to its literals and beside the gates nothing else, and the chain literal
\* exists iff clause_counter >= 1.
SolversInStep ==
    pc \in {"read", "halted"} =>
        /\ Len(pos_solver.clauses) = clause_counter
        /\ {var_map[i + 1].id : i \in IndicatorIndices} = 1..clause_counter
        /\ Cardinality(IndicatorIndices) = clause_counter
        /\ Cardinality(ChainLinks) = IF clause_counter = 0 THEN 0 ELSE clause_counter - 1
        /\ (chain /= None) <=> (clause_counter >= 1)
        /\ \A k \in 1..clause_counter :
              EncodedWith(pos_solver.clauses[k], IndicatorOf(k))
        /\ Len(neg_solver.clauses) =
               SumLen(pos_solver.clauses) + 3 * Cardinality(ChainLinks)

\* a user clause and the blocking clause of a round are both in both solvers
SolversInStepWitness ==
    /\ JustReported
    /\ clause_counter = 2
    /\ lines[1] /= <<>>


\* C16. The reduced model a round reports is a subset of the full model the
\* same round printed: every literal has the variable and the sign it has in the
\* full model, and no variable is printed twice.
ReducedWithinFull ==
    JustReported =>
        LET reduced == out[Len(out) - 1].lits
            full == out[Len(out) - 2]
        IN  /\ full.kind = "full model"
            /\ Range(reduced) \subseteq Range(full.lits)
            /\ \A i, j \in 1..Len(reduced) :
                  Abs(reduced[i]) = Abs(reduced[j]) => i = j

\* a round reported a reduced model with a negative literal, one literal fewer
\* than its full model
ReducedWithinFullWitness ==
    /\ JustReported
    /\ \E n \in ReportedReduced : n < 0
    /\ Cardinality(ReportedReduced) + 1 = Len(out[Len(out) - 2].lits)


\* C17. The fatal paths are unreachable, whatever subset of the assumptions the
\* solver reports as failed: main never panics, during a round every candidate
\* and every essential literal other than the chain literal is a literal of a
\* user variable, and the model in use is a model of pos_solver.
NoFatalPath ==
    /\ pc /= "panic"
    /\ pc = "reduce" =>
          /\ \A l \in (essential \ {chain}) \cup Range(assumptions) :
                LitVar(l) \in UserIndices(var_map)
          /\ model \in Models(pos_solver, UserIndices(var_map))

\* the loop was left after a reported core that did not suffice: what is kept
\* as essential is satisfiable in neg_solver
NoFatalPathWitness ==
    /\ LoopLeft
    /\ calls >= 1
    /\ Cardinality(UserIndices(var_map)) = 2
    /\ SolveWithAssumptions(neg_solver, essential)


\* C18. Reduction loop invariant: at the head of every iteration the candidates
\* and the essential set are disjoint, the chain literal is essential, every
\* other candidate or essential literal is a literal of a user variable that is
\* false under the full model of the round (one of the assumptions of line 74,
\* polarity unchanged), candidates and essential literals assumed together are
\* unsatisfiable in neg_solver, and an iteration only adds to the essential set.
LoopInvariant ==
    /\ [](pc = "reduce" =>
            /\ Range(assumptions) \cap essential = {}
            /\ chain \in essential
            /\ \A l \in (Range(assumptions) \cup essential) \ {chain} :
                  /\ l \in Range(InitialAssumptions(var_map, model))
                  /\ LitVar(l) \in UserIndices(var_map)
                  /\ ~LitTrue(l, model)
            /\ ~SolveWithAssumptions(neg_solver, Range(assumptions) \cup essential))
    /\ [][(pc = "reduce" /\ pc' = "reduce") => essential \subseteq essential']_vars

\* the head of an iteration after one that kept its candidate as essential
LoopInvariantWitness ==
    /\ pc = "reduce"
    /\ calls >= 1
    /\ assumptions /= <<>>
    /\ Cardinality(essential) >= 2


UserClauses == {Range(lines[i]) : i \in {j \in 1..Len(lines) : lines[j] /= <<>>}}

\* no clause line was read after an empty line
OnlySentinelsAfter ==
    \A i, j \in 1..Len(lines) : (i < j /\ lines[i] = <<>>) => lines[j] = <<>>

\* every total assignment of the variables 1..NumVars that satisfies the user
\* clauses agrees with one of the reduced models printed
Covered ==
    \A T \in SUBSET (1..NumVars) :
        (\A cl \in UserClauses : \E n \in cl : NameTrue(n, T)) =>
            \E i \in 1..Len(ReducedModelsPrinted) :
                \A n \in ReducedModelsPrinted[i] : NameTrue(n, T)

\* C20. Enumeration is exhaustive and finite: for any finite set of clause lines
\* followed by empty lines only, main prints "unsat" and stops after finitely
\* many rounds, and when it has, every total assignment that satisfies the
\* clause lines agrees with a reduced model printed before.
ExhaustiveAndFinite ==
    /\ <>(pc = "halted")
    /\ []((pc = "halted" /\ OnlySentinelsAfter) => Covered)

\* the same for at least one clause line
ExhaustiveForClauses ==
    /\ <>(pc = "halted")
    /\ []((pc = "halted" /\ OnlySentinelsAfter /\ UserClauses /= {}) => Covered)

=============================================================================
